---- MODULE Spec2Model ----
(***************************************************************************)
(* households.py: the wealth redistribution pipeline.                       *)
(*                                                                         *)
(* The script is one straight-line pass over a table of households: load,  *)
(* adjustment factors, closed-form solve for c_bar, allocation, marginal   *)
(* utility, two consistency assertions, console report, CSV export.        *)
(*                                                                         *)
(* Every number the script computes is an IEEE-754 binary64 value (Python   *)
(* float / numpy float64).  The model carries them as binary64 values with  *)
(* round-to-nearest-even, so that rounding, division by zero (inf, nan) and *)
(* the tolerances of np.isclose are the ones of the program.  TLC's         *)
(* integers are 32 bits wide, so a 53-bit significand is held as a          *)
(* little-endian sequence of 14-bit limbs.  Exponents of the values the     *)
(* bounded inputs produce stay far inside binary64's range: overflow to     *)
(* infinity and subnormal numbers are not modelled.  A zero carries no      *)
(* sign (the script never divides by a computed negative zero).             *)
(***************************************************************************)
EXTENDS Integers, Sequences, FiniteSets, TLC

\* ------------------------------------------------------------------------
\* Natural numbers of any width: little-endian limbs, no leading zero limb.
\* ------------------------------------------------------------------------

Base == 2^14

NatDigit(a, i) == IF i <= Len(a) THEN a[i] ELSE 0

RECURSIVE NatTrim(_)
NatTrim(a) ==
    IF a = <<>> THEN a
    ELSE IF a[Len(a)] = 0 THEN NatTrim(SubSeq(a, 1, Len(a) - 1))
    ELSE a

RECURSIVE NatFromInt(_)
NatFromInt(n) ==
    IF n = 0 THEN <<>> ELSE <<n % Base>> \o NatFromInt(n \div Base)

NatCmp(a, b) ==
    IF Len(a) # Len(b) THEN (IF Len(a) < Len(b) THEN -1 ELSE 1)
    ELSE LET D == {i \in 1..Len(a) : a[i] # b[i]}
         IN IF D = {} THEN 0
            ELSE LET k == CHOOSE i \in D : \A j \in D : j <= i
                 IN IF a[k] < b[k] THEN -1 ELSE 1

RECURSIVE NatAddFrom(_, _, _, _)
NatAddFrom(a, b, i, c) ==
    IF i > Len(a) /\ i > Len(b)
    THEN (IF c = 0 THEN <<>> ELSE <<c>>)
    ELSE LET s == NatDigit(a, i) + NatDigit(b, i) + c
         IN <<s % Base>> \o NatAddFrom(a, b, i + 1, s \div Base)

NatAdd(a, b) == NatAddFrom(a, b, 1, 0)

RECURSIVE NatSubFrom(_, _, _, _)
NatSubFrom(a, b, i, c) ==
    IF i > Len(a) THEN <<>>
    ELSE LET s == a[i] - NatDigit(b, i) - c
         IN IF s < 0 THEN <<s + Base>> \o NatSubFrom(a, b, i + 1, 1)
                     ELSE <<s>> \o NatSubFrom(a, b, i + 1, 0)

\* a - b for a >= b
NatSub(a, b) == NatTrim(NatSubFrom(a, b, 1, 0))

RECURSIVE NatMulLimbFrom(_, _, _, _)
NatMulLimbFrom(a, d, i, c) ==
    IF i > Len(a) THEN (IF c = 0 THEN <<>> ELSE <<c>>)
    ELSE LET p == a[i] * d + c
         IN <<p % Base>> \o NatMulLimbFrom(a, d, i + 1, p \div Base)

\* a * d for one limb d
NatMulLimb(a, d) == IF d = 0 THEN <<>> ELSE NatMulLimbFrom(a, d, 1, 0)

NatShlLimbs(a, k) == IF a = <<>> THEN a ELSE [i \in 1..k |-> 0] \o a

\* the carries of a sequence of column sums brought forward
RECURSIVE NatCarryFrom(_, _, _)
NatCarryFrom(cols, i, c) ==
    IF i > Len(cols) THEN (IF c = 0 THEN <<>> ELSE <<c>>)
    ELSE LET t == cols[i] + c
         IN <<t % Base>> \o NatCarryFrom(cols, i + 1, t \div Base)

NatLimbProduct(a, b, i, k) ==
    IF i <= Len(a) /\ k + 1 - i >= 1 /\ k + 1 - i <= Len(b) THEN a[i] * b[k + 1 - i] ELSE 0

\* a * b for a of at most four limbs (a significand): the columns of the
\* schoolbook product, each below 2^31, then the carries
NatMul(a, b) ==
    NatTrim(NatCarryFrom([k \in 1..(Len(a) + Len(b)) |->
                              NatLimbProduct(a, b, 1, k) + NatLimbProduct(a, b, 2, k)
                              + NatLimbProduct(a, b, 3, k) + NatLimbProduct(a, b, 4, k)],
                         1, 0))

\* a * 2^n
NatShl(a, n) == NatShlLimbs(NatMulLimb(a, 2^(n % 14)), n \div 14)

\* floor(a / 2^n)
NatShr(a, n) ==
    LET q == n \div 14
        r == n % 14
    IN IF q >= Len(a) THEN <<>>
       ELSE LET b == SubSeq(a, q + 1, Len(a))
            IN NatTrim([i \in 1..Len(b) |->
                            (b[i] \div 2^r)
                            + (IF i < Len(b) THEN (b[i + 1] % 2^r) * 2^(14 - r) ELSE 0)])

\* a mod 2^n = 0
NatLowZero(a, n) ==
    LET q == n \div 14
        r == n % 14
    IN /\ \A i \in 1..Len(a) : i <= q => a[i] = 0
       /\ q < Len(a) => a[q + 1] % 2^r = 0

\* bit n of a (bit 0 is the lowest)
NatBit(a, n) ==
    LET q == n \div 14
    IN IF q + 1 > Len(a) THEN 0 ELSE (a[q + 1] \div 2^(n % 14)) % 2

\* the number of bits of a nonzero limb
LimbBitLen(x) ==
    IF x < 128
    THEN (IF x < 8 THEN (IF x < 2 THEN 1 ELSE IF x < 4 THEN 2 ELSE 3)
          ELSE IF x < 32 THEN (IF x < 16 THEN 4 ELSE 5)
          ELSE IF x < 64 THEN 6 ELSE 7)
    ELSE (IF x < 1024 THEN (IF x < 256 THEN 8 ELSE IF x < 512 THEN 9 ELSE 10)
          ELSE IF x < 4096 THEN (IF x < 2048 THEN 11 ELSE 12)
          ELSE IF x < 8192 THEN 13 ELSE 14)

NatBitLen(a) ==
    IF a = <<>> THEN 0 ELSE 14 * (Len(a) - 1) + LimbBitLen(a[Len(a)])

\* ------------------------------------------------------------------------
\* binary64 values: (-1)^s * m * 2^e with 2^52 <= m < 2^53, or zero, or
\* an infinity, or nan.
\* ------------------------------------------------------------------------

Precision == 52 + 1

Zero == [k |-> "fin", s |-> 0, m |-> <<>>, e |-> 0]
NaN == [k |-> "nan", s |-> 0, m |-> <<>>, e |-> 0]
Inf(s) == [k |-> "inf", s |-> s, m |-> <<>>, e |-> 0]

IsNaN(a) == a.k = "nan"
IsInf(a) == a.k = "inf"
IsFinite(a) == a.k = "fin"
IsZero(a) == a.k = "fin" /\ a.m = <<>>

\* The binary64 value nearest to (-1)^s * (m + f) * 2^e, ties to even,
\* where f is a fraction in (0,1) when sticky holds and 0 otherwise.
RoundPack(s, m, e, sticky) ==
    LET bl == NatBitLen(m)
    IN IF bl = 0 THEN Zero
       ELSE IF bl <= Precision
       THEN [k |-> "fin", s |-> s, m |-> NatShl(m, Precision - bl), e |-> e - (Precision - bl)]
       ELSE LET sh == bl - Precision
                q == NatShr(m, sh)
                half == NatBit(m, sh - 1) = 1
                rest == sticky \/ ~NatLowZero(m, sh - 1)
                up == half /\ (rest \/ NatBit(q, 0) = 1)
                q1 == IF up THEN NatAdd(q, <<1>>) ELSE q
            IN IF NatBitLen(q1) > Precision
               THEN [k |-> "fin", s |-> s, m |-> NatShr(q1, 1), e |-> e + sh + 1]
               ELSE [k |-> "fin", s |-> s, m |-> q1, e |-> e + sh]

\* int -> float (exact for the 32-bit integers of the model)
fromInt(i) == RoundPack(IF i < 0 THEN 1 ELSE 0, NatFromInt(IF i < 0 THEN -i ELSE i), 0, FALSE)

fneg(a) == IF IsNaN(a) \/ IsZero(a) THEN a ELSE [a EXCEPT !.s = 1 - a.s]
fabs(a) == IF IsNaN(a) THEN a ELSE [a EXCEPT !.s = 0]

\* compare magnitudes of two non-nan values: -1, 0, 1
MagCmp(a, b) ==
    IF IsInf(a) \/ IsInf(b)
    THEN (IF IsInf(a) /\ IsInf(b) THEN 0 ELSE IF IsInf(a) THEN 1 ELSE -1)
    ELSE IF IsZero(a) \/ IsZero(b)
    THEN (IF IsZero(a) /\ IsZero(b) THEN 0 ELSE IF IsZero(a) THEN -1 ELSE 1)
    ELSE IF a.e # b.e THEN (IF a.e < b.e THEN -1 ELSE 1)
    ELSE NatCmp(a.m, b.m)

\* compare two non-nan values: -1, 0, 1
FCmp(a, b) ==
    IF IsZero(a) /\ IsZero(b) THEN 0
    ELSE IF IsZero(a) THEN (IF b.s = 1 THEN 1 ELSE -1)
    ELSE IF IsZero(b) THEN (IF a.s = 1 THEN -1 ELSE 1)
    ELSE IF a.s # b.s THEN (IF a.s = 1 THEN -1 ELSE 1)
    ELSE IF a.s = 0 THEN MagCmp(a, b) ELSE MagCmp(b, a)

\* IEEE comparisons: false when an operand is nan
feq(a, b) == ~IsNaN(a) /\ ~IsNaN(b) /\ FCmp(a, b) = 0
flt(a, b) == ~IsNaN(a) /\ ~IsNaN(b) /\ FCmp(a, b) < 0
fle(a, b) == ~IsNaN(a) /\ ~IsNaN(b) /\ FCmp(a, b) <= 0

fmul(a, b) ==
    IF IsNaN(a) \/ IsNaN(b) THEN NaN
    ELSE IF IsInf(a) \/ IsInf(b)
    THEN (IF IsZero(a) \/ IsZero(b) THEN NaN ELSE Inf((a.s + b.s) % 2))
    ELSE IF IsZero(a) \/ IsZero(b) THEN Zero
    ELSE RoundPack((a.s + b.s) % 2, NatMul(a.m, b.m), a.e + b.e, FALSE)

\* One step of long division in base 2^14: the quotient limb of
\* (rem * Base) / d and the remainder left, for rem < d and d of four limbs
\* whose top limb is at least Base / 2.  The limb estimated from the leading
\* limbs is at most 2 too large (Knuth, TAOCP 4.3.1, Theorem B).
NatDivLimb(rem, d) ==
    LET R == NatShlLimbs(rem, 1)
        est == (NatDigit(R, 5) * Base + NatDigit(R, 4)) \div d[4]
        qh == IF est > Base - 1 THEN Base - 1 ELSE est
        q == IF NatCmp(NatMulLimb(d, qh), R) <= 0 THEN qh
             ELSE IF NatCmp(NatMulLimb(d, qh - 1), R) <= 0 THEN qh - 1
             ELSE qh - 2
    IN [q |-> q, rem |-> NatSub(R, NatMulLimb(d, q))]

\* a / b, numpy semantics: a division by zero yields inf or nan (and a
\* RuntimeWarning), it does not raise.  The quotient is developed to 56 bits
\* after the leading one, a limb at a time, and rounded once.
fdiv(a, b) ==
    IF IsNaN(a) \/ IsNaN(b) THEN NaN
    ELSE IF IsInf(a) THEN (IF IsInf(b) THEN NaN ELSE Inf((a.s + b.s) % 2))
    ELSE IF IsInf(b) THEN Zero
    ELSE IF IsZero(b) THEN (IF IsZero(a) THEN NaN ELSE Inf(a.s))
    ELSE IF IsZero(a) THEN Zero
    ELSE LET n == NatShl(a.m, 3)
             d == NatShl(b.m, 3)
             first == NatCmp(n, d) >= 0
             c1 == NatDivLimb(IF first THEN NatSub(n, d) ELSE n, d)
             c2 == NatDivLimb(c1.rem, d)
             c3 == NatDivLimb(c2.rem, d)
             c4 == NatDivLimb(c3.rem, d)
             q == NatTrim(<<c4.q, c3.q, c2.q, c1.q, IF first THEN 1 ELSE 0>>)
         IN RoundPack((a.s + b.s) % 2, q, a.e - b.e - 56, c4.rem # <<>>)

fadd(a, b) ==
    IF IsNaN(a) \/ IsNaN(b) THEN NaN
    ELSE IF IsInf(a) THEN (IF IsInf(b) /\ a.s # b.s THEN NaN ELSE a)
    ELSE IF IsInf(b) THEN b
    ELSE IF IsZero(a) THEN b
    ELSE IF IsZero(b) THEN a
    ELSE LET hi == IF a.e >= b.e THEN a ELSE b
             lo == IF a.e >= b.e THEN b ELSE a
             A == NatShl(hi.m, hi.e - lo.e)
             c == NatCmp(A, lo.m)
         IN IF hi.s = lo.s THEN RoundPack(hi.s, NatAdd(A, lo.m), lo.e, FALSE)
            ELSE IF c = 0 THEN Zero
            ELSE IF c > 0 THEN RoundPack(hi.s, NatSub(A, lo.m), lo.e, FALSE)
            ELSE RoundPack(lo.s, NatSub(lo.m, A), lo.e, FALSE)

fsub(a, b) == fadd(a, fneg(b))

\* a decimal literal p/q of the source (p, q exact in binary64): the parser
\* yields the binary64 value nearest to the decimal, as the division does
Lit(p, q) == fdiv(p, q)


\* np.maximum(a, b): a nan operand yields nan
fmaximum(a, b) ==
    IF IsNaN(a) \/ IsNaN(b) THEN NaN
    ELSE IF FCmp(a, b) >= 0 THEN a ELSE b

\* Series.sum() of a float64 column: numpy adds fewer than 8 elements from
\* left to right; the sum of no element is 0
RECURSIVE FSumTo(_, _)
FSumTo(col, n) ==
    IF n = 0 THEN Zero
    ELSE IF n = 1 THEN col[1]
    ELSE fadd(FSumTo(col, n - 1), col[n])

fsum(col) == FSumTo(col, Len(col))

One == fromInt(1)

\* np.isclose(a, b) with its defaults rtol=1e-05, atol=1e-08:
\* |a - b| <= atol + rtol * |b| for finite operands, a == b otherwise
IscloseRtol == Lit(One, fromInt(100000))
IscloseAtol == Lit(One, fromInt(100000000))

isclose(a, b) ==
    IF IsFinite(a) /\ IsFinite(b)
    THEN fle(fabs(fsub(a, b)), fadd(IscloseAtol, fmul(IscloseRtol, fabs(b))))
    ELSE feq(a, b)

\* ------------------------------------------------------------------------
\* 1. Global parameters
\* ------------------------------------------------------------------------

MAX_LIFE_EXPECTANCY == 100

DEPENDENT_WEIGHT == Lit(fromInt(3), fromInt(10))

\* ------------------------------------------------------------------------
\* The CSV files the model reads: up to MaxHouseholds rows of
\* (age, dependents, net_worth)
\* ------------------------------------------------------------------------

MaxHouseholds == 2

Ages == {30, 65, 100, 101}
DependentCounts == {0, 2}
NetWorths == {-250000, 250000, 1000000000}

Rows == [age : Ages, dependents : DependentCounts, net_worth : NetWorths]

Tables == UNION {[1..n -> Rows] : n \in 1..MaxHouseholds}

\* ------------------------------------------------------------------------
\* 3. Core economic functions
\* ------------------------------------------------------------------------

\* slips of equivalence_scale: the count of dependents dropped; the sign turned
equivalence_scale_uncounted(dependents, weight) == fadd(One, weight)

equivalence_scale_minus(dependents, weight) == fsub(One, fmul(weight, fromInt(dependents)))

equivalence_scale(dependents, weight) == fadd(One, fmul(weight, fromInt(dependents)))

\* slip of remaining_life_years: no clamp at 0
remaining_life_years_unclamped(age, max_age) == max_age - age

remaining_life_years(age, max_age) == IF max_age - age > 0 THEN max_age - age ELSE 0

\* the floor 1e-10 under the consumption
MinConsumption == Lit(One, fmul(fromInt(100000), fromInt(100000)))

\* slip of marginal_utility: the docstring's 1 / consumption, no floor
marginal_utility_unfloored(consumption_per_year) == fdiv(One, consumption_per_year)

marginal_utility(consumption_per_year) ==
    fdiv(One, fmaximum(consumption_per_year, MinConsumption))

\* ------------------------------------------------------------------------
\* State
\* ------------------------------------------------------------------------

VARIABLES
    pc,                             \* the section of the script about to run
    households,                     \* the rows read: age, dependents, net_worth
    TOTAL_RESOURCES,
    phi, L, L_phi,                  \* columns, <<>> until computed
    total_adjusted_life,
    c_bar,
    target_lifetime_consumption,
    annual_consumption,
    transfer,
    net_worth_after_redistribution,
    mu_column,                      \* households["marginal_utility"]
    out,                            \* what was printed or written, in order
    err                             \* the exception that ended the run

vars == <<pc, households, TOTAL_RESOURCES, phi, L, L_phi, total_adjusted_life, c_bar,
          target_lifetime_consumption, annual_consumption, transfer,
          net_worth_after_redistribution, mu_column, out, err>>

\* a scalar not assigned yet
Unset == [k |-> "unset", s |-> 0, m |-> <<>>, e |-> 0]

Init ==
    /\ pc = "load"
    /\ households = <<>>
    /\ TOTAL_RESOURCES = Unset
    /\ phi = <<>> /\ L = <<>> /\ L_phi = <<>>
    /\ total_adjusted_life = Unset
    /\ c_bar = Unset
    /\ target_lifetime_consumption = <<>>
    /\ annual_consumption = <<>>
    /\ transfer = <<>>
    /\ net_worth_after_redistribution = <<>>
    /\ mu_column = <<>>
    /\ out = <<>>
    /\ err = "none"

\* ------------------------------------------------------------------------
\* 2. Load household data: read_csv, check the columns, total the net worth
\*    (an exact integer sum, held as the float the division converts it to),
\*    print the four "Loaded ..." lines
\* ------------------------------------------------------------------------

NetWorthColumn(hh) == [i \in 1..Len(hh) |-> fromInt(hh[i].net_worth)]

load_household_data ==
    /\ pc = "load"
    /\ \E missing_cols \in BOOLEAN :
         IF missing_cols
         THEN /\ pc' = "aborted"
              /\ err' = "ValueError"
              /\ UNCHANGED <<households, TOTAL_RESOURCES, out>>
         ELSE \E table \in Tables :
                /\ households' = table
                /\ TOTAL_RESOURCES' = fsum(NetWorthColumn(table))
                /\ out' = out \o <<"loaded">>
                /\ pc' = "adjust"
                /\ err' = err
    /\ UNCHANGED <<phi, L, L_phi, total_adjusted_life, c_bar, target_lifetime_consumption,
                   annual_consumption, transfer, net_worth_after_redistribution, mu_column>>

\* ------------------------------------------------------------------------
\* 4. Adjustment factors
\* ------------------------------------------------------------------------

PhiColumn(hh) == [i \in 1..Len(hh) |-> equivalence_scale(hh[i].dependents, DEPENDENT_WEIGHT)]

LColumn(hh) == [i \in 1..Len(hh) |-> remaining_life_years(hh[i].age, MAX_LIFE_EXPECTANCY)]

LPhiColumn(l, p) == [i \in 1..Len(l) |-> fmul(fromInt(l[i]), p[i])]

ComputeAdjustmentFactors ==
    /\ pc = "adjust"
    /\ LET p == PhiColumn(households)
           l == LColumn(households)
       IN /\ phi' = p
          /\ L' = l
          /\ L_phi' = LPhiColumn(l, p)
    /\ pc' = "solve"
    /\ UNCHANGED <<households, TOTAL_RESOURCES, total_adjusted_life, c_bar,
                   target_lifetime_consumption, annual_consumption, transfer,
                   net_worth_after_redistribution, mu_column, out, err>>

\* ------------------------------------------------------------------------
\* 5. Solve for the equalized consumption rate, and print it
\* ------------------------------------------------------------------------

\* slip of the solve: the operands exchanged
SolveCBar_exchanged(total_resources, adjusted_life) == fdiv(adjusted_life, total_resources)

SolveCBar(total_resources, adjusted_life) == fdiv(total_resources, adjusted_life)

Solve ==
    /\ pc = "solve"
    /\ LET adjusted_life == fsum(L_phi)
       IN /\ total_adjusted_life' = adjusted_life
          /\ c_bar' = SolveCBar(TOTAL_RESOURCES, adjusted_life)
    /\ out' = out \o <<"c_bar">>
    /\ pc' = "allocate"
    /\ UNCHANGED <<households, TOTAL_RESOURCES, phi, L, L_phi, target_lifetime_consumption,
                   annual_consumption, transfer, net_worth_after_redistribution,
                   mu_column, err>>

\* ------------------------------------------------------------------------
\* 6. Target allocations and transfers
\* ------------------------------------------------------------------------

TargetColumn(c, lp) == [i \in 1..Len(lp) |-> fmul(c, lp[i])]

AnnualColumn(c, p) == [i \in 1..Len(p) |-> fmul(c, p[i])]

\* slip of the transfer: net worth added
TransferColumn_added(target, hh) ==
    [i \in 1..Len(hh) |-> fadd(target[i], fromInt(hh[i].net_worth))]

TransferColumn(target, hh) ==
    [i \in 1..Len(hh) |-> fsub(target[i], fromInt(hh[i].net_worth))]

AfterColumn(hh, tr) == [i \in 1..Len(hh) |-> fadd(fromInt(hh[i].net_worth), tr[i])]

Allocate ==
    /\ pc = "allocate"
    /\ LET target == TargetColumn(c_bar, L_phi)
           tr == TransferColumn(target, households)
       IN /\ target_lifetime_consumption' = target
          /\ annual_consumption' = AnnualColumn(c_bar, phi)
          /\ transfer' = tr
          /\ net_worth_after_redistribution' = AfterColumn(households, tr)
    /\ pc' = "verify"
    /\ UNCHANGED <<households, TOTAL_RESOURCES, phi, L, L_phi, total_adjusted_life, c_bar,
                   mu_column, out, err>>

\* ------------------------------------------------------------------------
\* 7. Marginal utility: one scalar, broadcast to the column, and printed
\* ------------------------------------------------------------------------

\* slip of the marginal utility column: taken at each household's own
\* annual consumption
MarginalUtilityColumn_perHousehold(c, hh, annual) ==
    [i \in 1..Len(hh) |-> marginal_utility(annual[i])]

MarginalUtilityColumn(c, hh, annual) ==
    LET mu == marginal_utility(c) IN [i \in 1..Len(hh) |-> mu]

VerifyMarginalUtility ==
    /\ pc = "verify"
    /\ mu_column' = MarginalUtilityColumn(c_bar, households, annual_consumption)
    /\ out' = out \o <<"marginal_utility">>
    /\ pc' = "check1"
    /\ UNCHANGED <<households, TOTAL_RESOURCES, phi, L, L_phi, total_adjusted_life, c_bar,
                   target_lifetime_consumption, annual_consumption, transfer,
                   net_worth_after_redistribution, err>>

\* ------------------------------------------------------------------------
\* 8. Consistency checks: two assert statements
\* ------------------------------------------------------------------------

AllocationCheck(target, total_resources) == isclose(fsum(target), total_resources)

TransferCheck(tr) == isclose(fsum(tr), Zero)

ConsistencyCheck1 ==
    /\ pc = "check1"
    /\ IF AllocationCheck(target_lifetime_consumption, TOTAL_RESOURCES)
       THEN pc' = "check2" /\ err' = err
       ELSE pc' = "aborted" /\ err' = "AssertionError"
    /\ UNCHANGED <<households, TOTAL_RESOURCES, phi, L, L_phi, total_adjusted_life, c_bar,
                   target_lifetime_consumption, annual_consumption, transfer,
                   net_worth_after_redistribution, mu_column, out>>

ConsistencyCheck2 ==
    /\ pc = "check2"
    /\ IF TransferCheck(transfer)
       THEN pc' = "report" /\ err' = err /\ out' = out \o <<"checks_passed">>
       ELSE pc' = "aborted" /\ err' = "AssertionError" /\ out' = out
    /\ UNCHANGED <<households, TOTAL_RESOURCES, phi, L, L_phi, total_adjusted_life, c_bar,
                   target_lifetime_consumption, annual_consumption, transfer,
                   net_worth_after_redistribution, mu_column>>

\* ------------------------------------------------------------------------
\* 9. Detailed output on the console;  10. export to CSV
\* ------------------------------------------------------------------------

Report ==
    /\ pc = "report"
    /\ out' = out \o <<"results">>
    /\ pc' = "export"
    /\ UNCHANGED <<households, TOTAL_RESOURCES, phi, L, L_phi, total_adjusted_life, c_bar,
                   target_lifetime_consumption, annual_consumption, transfer,
                   net_worth_after_redistribution, mu_column, err>>

Export ==
    /\ pc = "export"
    /\ out' = out \o <<"csv", "exported">>
    /\ pc' = "done"
    /\ UNCHANGED <<households, TOTAL_RESOURCES, phi, L, L_phi, total_adjusted_life, c_bar,
                   target_lifetime_consumption, annual_consumption, transfer,
                   net_worth_after_redistribution, mu_column, err>>

Next ==
    \/ load_household_data
    \/ ComputeAdjustmentFactors
    \/ Solve
    \/ Allocate
    \/ VerifyMarginalUtility
    \/ ConsistencyCheck1
    \/ ConsistencyCheck2
    \/ Report
    \/ Export

Spec == Init /\ [][Next]_vars

\* ------------------------------------------------------------------------
\* Properties
\* ------------------------------------------------------------------------

NUM_HOUSEHOLDS == Len(households)

\* the allocation pass (section 6) has run
Allocated == households # <<>> /\ Len(target_lifetime_consumption) = NUM_HOUSEHOLDS

\* the allocation pass has just run: the state it leaves.  No later section
\* assigns a column again.
AllocationPassDone == pc = "verify"

\* section 7 has run
MarginalUtilityComputed == households # <<>> /\ Len(mu_column) = NUM_HOUSEHOLDS

\* both assert statements of section 8 have run and passed
ChecksPassed == pc \in {"report", "export", "done"}

\* both have run, or one has failed
ChecksRun == ChecksPassed \/ err = "AssertionError"

PositiveNeed == flt(Zero, total_adjusted_life)

\* the tolerance of the testable properties: 1e-6, relative to the total
RelTol == Lit(One, fromInt(1000000))

WithinRelTol(a, b, scale) == fle(fabs(fsub(a, b)), fmul(RelTol, fabs(scale)))

\* C1 (Conservation): the allocation pass, run on a table whose total
\* adjusted need is positive, leaves the sum of target_lifetime_consumption
\* equal to the total resources to within 1e-6 relative tolerance.
C1_Conservation ==
    (AllocationPassDone /\ PositiveNeed)
        => WithinRelTol(fsum(target_lifetime_consumption), TOTAL_RESOURCES, TOTAL_RESOURCES)

\* two households, positive need, and a sum of targets that rounding has
\* moved off the total
C1_Witness ==
    /\ AllocationPassDone /\ PositiveNeed /\ NUM_HOUSEHOLDS = 2
    /\ ~IsZero(TOTAL_RESOURCES)
    /\ fsum(target_lifetime_consumption) # TOTAL_RESOURCES

C3_DegenerateInputRaises ==
    (total_adjusted_life # Unset /\ IsZero(total_adjusted_life))
        => (pc = "aborted" /\ err = "DegenerateInputError" /\ c_bar = Unset)

\* what the run has put out of its results: the solved rate, the marginal
\* utility, the report, the CSV file
ResultsPutOut == {out[i] : i \in 1..Len(out)} \ {"loaded"}

\* C4 (Abort before output): a consistency check that fails halts the run
\* with nothing put out afterwards; the export happens only after both
\* checks have passed; and nothing is put out before the checks have run.
C4_AbortBeforeOutput ==
    /\ err = "AssertionError"
         => (pc = "aborted" /\ ResultsPutOut \cap {"results", "csv", "exported"} = {})
    /\ "csv" \in ResultsPutOut => ChecksPassed
    /\ ResultsPutOut # {} => ChecksRun

\* C5 (Monotonicity in dependents), as claimed: of two households of equal
\* age in a computed table, the one with strictly more dependents has the
\* strictly greater target_lifetime_consumption.
C5_Original ==
    Allocated =>
        \A i, j \in 1..NUM_HOUSEHOLDS :
            (households[i].age = households[j].age
             /\ households[i].dependents < households[j].dependents)
                => flt(target_lifetime_consumption[i], target_lifetime_consumption[j])

\* C5, amended: the same, for households of equal age below
\* max_life_expectancy in a table whose c_bar is positive.
C5_MonotoneInDependents ==
    (Allocated /\ flt(Zero, c_bar)) =>
        \A i, j \in 1..NUM_HOUSEHOLDS :
            (households[i].age = households[j].age
             /\ households[i].age < MAX_LIFE_EXPECTANCY
             /\ households[i].dependents < households[j].dependents)
                => flt(target_lifetime_consumption[i], target_lifetime_consumption[j])

C5_Witness ==
    /\ Allocated /\ flt(Zero, c_bar) /\ NUM_HOUSEHOLDS = 2
    /\ households[1].age = households[2].age
    /\ households[1].age < MAX_LIFE_EXPECTANCY
    /\ households[1].dependents < households[2].dependents
    /\ flt(target_lifetime_consumption[1], target_lifetime_consumption[2])

\* C6 (Monotonicity in age), as claimed: of two households of equal
\* dependents and ages below max_life_expectancy, the older has the strictly
\* smaller target_lifetime_consumption; a household at or beyond
\* max_life_expectancy has target_lifetime_consumption exactly 0.
C6_Original ==
    Allocated =>
        /\ \A i, j \in 1..NUM_HOUSEHOLDS :
             (households[i].dependents = households[j].dependents
              /\ households[i].age < households[j].age
              /\ households[j].age < MAX_LIFE_EXPECTANCY)
                 => flt(target_lifetime_consumption[j], target_lifetime_consumption[i])
        /\ \A i \in 1..NUM_HOUSEHOLDS :
             households[i].age >= MAX_LIFE_EXPECTANCY
                 => target_lifetime_consumption[i] = Zero

\* C6, amended: the older household has the strictly smaller target when
\* c_bar is positive; a household at or beyond max_life_expectancy has
\* target 0 when the total adjusted need is positive, and nan when it is 0.
C6_MonotoneInAge ==
    Allocated =>
        /\ flt(Zero, c_bar) =>
             \A i, j \in 1..NUM_HOUSEHOLDS :
                 (households[i].dependents = households[j].dependents
                  /\ households[i].age < households[j].age
                  /\ households[j].age < MAX_LIFE_EXPECTANCY)
                     => flt(target_lifetime_consumption[j], target_lifetime_consumption[i])
        /\ \A i \in 1..NUM_HOUSEHOLDS :
             households[i].age >= MAX_LIFE_EXPECTANCY
                 => target_lifetime_consumption[i] = (IF PositiveNeed THEN Zero ELSE NaN)

C6_Witness ==
    /\ Allocated /\ flt(Zero, c_bar) /\ NUM_HOUSEHOLDS = 2
    /\ households[1].dependents = households[2].dependents
    /\ households[1].age < households[2].age
    /\ households[2].age < MAX_LIFE_EXPECTANCY
    /\ flt(target_lifetime_consumption[2], target_lifetime_consumption[1])

\* C7 (Equalization): once section 7 has run, the marginal_utility values
\* of all households are the same value.
C7_Equalization ==
    MarginalUtilityComputed => \A i, j \in 1..NUM_HOUSEHOLDS : mu_column[i] = mu_column[j]

\* two households whose own annual consumptions differ
C7_Witness ==
    /\ MarginalUtilityComputed /\ NUM_HOUSEHOLDS = 2
    /\ flt(MinConsumption, c_bar)
    /\ flt(annual_consumption[1], annual_consumption[2])
    /\ mu_column[1] = mu_column[2]

\* C8: for every household of a computed table,
\* net_worth_after_redistribution equals target_lifetime_consumption.
C8_AfterEqualsTarget ==
    Allocated =>
        \A i \in 1..NUM_HOUSEHOLDS : net_worth_after_redistribution[i] = target_lifetime_consumption[i]

\* C9: for every household of a computed table phi >= 1 and L >= 0, ages
\* above max_life_expectancy included.
C9_PhiAndLBounds ==
    (households # <<>> /\ Len(phi) = NUM_HOUSEHOLDS /\ Len(L) = NUM_HOUSEHOLDS) =>
        \A i \in 1..NUM_HOUSEHOLDS : fle(One, phi[i]) /\ L[i] >= 0

\* a household past max_life_expectancy with dependents
C9_Witness ==
    /\ households # <<>> /\ Len(phi) = NUM_HOUSEHOLDS /\ Len(L) = NUM_HOUSEHOLDS
    /\ \E i \in 1..NUM_HOUSEHOLDS :
         /\ households[i].age > MAX_LIFE_EXPECTANCY
         /\ households[i].dependents > 0
         /\ L[i] = 0
         /\ flt(One, phi[i])

====
